---- MODULE Spec2Model ----
(***************************************************************************)
(* Model of ib_bw_mon.py: counter resolution, the wrap-safe delta engine,  *)
(* the sampling / key-handling loop of draw() and its bounded histories,   *)
(* the window layout, the chart scaling of draw_panel and the CSV sink.    *)
(***************************************************************************)
EXTENDS Integers, Sequences, FiniteSets, TLC

(***************************************************************************)
(* Python integers are unbounded; counter values reach 2^64.  They are     *)
(* held as a sign and a magnitude of NLimbs little-endian limbs in base     *)
(* LimbBase, so that 1 << 64 is Base^4 exactly.                             *)
(***************************************************************************)
LimbBase == 65536
NLimbs == 5
Limbs == 1..NLimbs

RECURSIVE MagLess(_, _, _)
MagLess(a, b, i) ==
    IF i = 0 THEN FALSE
    ELSE IF a[i] # b[i] THEN a[i] < b[i]
    ELSE MagLess(a, b, i - 1)

RECURSIVE CarryIn(_, _, _)
CarryIn(a, b, i) ==
    IF i = 1 THEN 0 ELSE (a[i - 1] + b[i - 1] + CarryIn(a, b, i - 1)) \div LimbBase

MagAdd(a, b) == [i \in Limbs |-> (a[i] + b[i] + CarryIn(a, b, i)) % LimbBase]

RECURSIVE BorrowIn(_, _, _)
BorrowIn(a, b, i) ==
    IF i = 1 THEN 0
    ELSE IF a[i - 1] - b[i - 1] - BorrowIn(a, b, i - 1) < 0 THEN 1 ELSE 0

\* a - b for magnitudes with a >= b
MagSub(a, b) == [i \in Limbs |-> (a[i] - b[i] - BorrowIn(a, b, i) + LimbBase) % LimbBase]

RECURSIVE MulCarry(_, _, _)
MulCarry(a, k, i) ==
    IF i = 1 THEN 0 ELSE (a[i - 1] * k + MulCarry(a, k, i - 1)) \div LimbBase

MagMul(a, k) == [i \in Limbs |-> (a[i] * k + MulCarry(a, k, i)) % LimbBase]

MagZero == [i \in Limbs |-> 0]

PyInt(neg, mag) == [neg |-> neg /\ mag # MagZero, mag |-> mag]

\* a small non-negative number as a Python int
Num(x) == PyInt(FALSE, [i \in Limbs |-> IF i = 1 THEN x % LimbBase
                                        ELSE IF i = 2 THEN x \div LimbBase ELSE 0])

PyNeg(x) == PyInt(~x.neg, x.mag)

PyAdd(x, y) ==
    IF x.neg = y.neg THEN PyInt(x.neg, MagAdd(x.mag, y.mag))
    ELSE IF MagLess(x.mag, y.mag, NLimbs) THEN PyInt(y.neg, MagSub(y.mag, x.mag))
    ELSE PyInt(x.neg, MagSub(x.mag, y.mag))

PySub(x, y) == PyAdd(x, PyNeg(y))

PyMul(x, k) == PyInt(x.neg, MagMul(x.mag, k))

\* x < y
PyLess(x, y) == PySub(x, y).neg

\* 1 << 64
Two64 == PyInt(FALSE, [i \in Limbs |-> IF i = 5 THEN 1 ELSE 0])

\* 2^64 - k for 1 <= k <= LimbBase
Two64Minus(k) == PySub(Two64, Num(k))

Fields == 1..4

\* diff_counters with the wrap correction off by one (adds 2^64 - 1)
diff_counters_offbyone(p, c) ==
    [f \in Fields |->
        LET d == PySub(c[f], p[f])
        IN  IF d.neg THEN PySub(PyAdd(c[f], Two64Minus(1)), p[f]) ELSE d]

diff_counters(p, c) ==
    [f \in Fields |->
        LET d == PySub(c[f], p[f])
        IN  IF d.neg THEN PySub(PyAdd(c[f], Two64), p[f]) ELSE d]

(***************************************************************************)
(* Bounds of the model and the inputs the environment may supply.          *)
(***************************************************************************)
MaxSamples == 2      \* sampling steps explored per run
MaxKeys == 1         \* keys pending in the terminal's input buffer
MaxClockSec == 1     \* seconds the monotonic clock may advance

NsPerSec == 1000000000   \* the clock is counted in units of the 1e-9 s epsilon
EpsNs == 1               \* max(1e-9, ...) in clock units

None == "None"
Unbound == "unbound"     \* a local of draw() that no assignment has reached yet
\* tx_Bps, rx_Bps, tx_pps, rx_pps before their first assignment
NoRate == [d |-> [neg |-> FALSE, mag |-> <<0, 0, 0, 0, 0>>], dt |-> 0]
UnboundRates ==
    [bound |-> FALSE, tx_Bps |-> NoRate, rx_Bps |-> NoRate, tx_pps |-> NoRate,
     rx_pps |-> NoRate]

TxDataNames == <<"port_xmit_data", "tx_bytes">>
RxDataNames == <<"port_rcv_data", "rx_bytes">>
TxPktsNames == <<"port_xmit_packets", "port_xmit_pkts", "tx_packets">>
RxPktsNames == <<"port_rcv_packets", "port_rcv_pkts", "rx_packets">>

Range(s) == {s[i] : i \in DOMAIN s}
AllNames == Range(TxDataNames) \cup Range(RxDataNames)
              \cup Range(TxPktsNames) \cup Range(RxPktsNames)
CanonicalNames == {"port_xmit_data", "port_rcv_data", "port_xmit_packets", "port_rcv_packets"}
ByteNames == {"tx_bytes", "rx_bytes", "tx_packets", "rx_packets"}

\* counters directories explored: every subset of the canonical names (all
\* missing-metric patterns), the byte-granularity aliases, and two directories
\* that hold later aliases only and lack a metric
FsChoices ==
    (SUBSET CanonicalNames)
        \cup {ByteNames, {"tx_bytes", "port_rcv_pkts"},
               {"rx_bytes", "port_xmit_pkts", "rx_packets"}}
LinkLayers == {"InfiniBand", "Ethernet"}
Durations == {0, NsPerSec}
UnitModes == {"bits", "bytes"}
Keys == {"q", "p", "u", "d", "i", "x"}

\* what the four counter files hold at one read: the values of (tx_data,
\* rx_data, tx_pkts, rx_pkts), and the files read_uint_from_file gets None from
ReadA == <<Num(100), Num(1000), Num(10), Num(20)>>
ReadB == <<Num(140), Num(1500), Num(12), Num(20)>>
GoodReads == {[val |-> ReadA, unreadable |-> {}], [val |-> ReadB, unreadable |-> {}]}
BadReads == {[val |-> ReadB, unreadable |-> {2}]}
FileReads == GoodReads \cup BadReads

VARIABLES
    pc,          \* position of the program
    dir_exists,  \* os.path.isdir(counters_base)
    files,       \* names existing in the counters directory
    link_layer,  \* content of the link_layer file, None when unreadable
    duration,    \* args.duration, in clock units
    units,       \* args.units
    errmsg,      \* the error shown when resolution fails
    paths,       \* CounterPaths
    prev, prev_t, cur, delta, rates,
    paused, data_mode, info_mode, fast_switch,
    rx_hist, tx_hist,
    keys,        \* pending key events, oldest first
    clock,       \* time.perf_counter()
    start_time,
    tick,        \* what the sampling step of this iteration did: none, ok, fail
    painted,     \* whether this iteration completed its frame
    rate,        \* content of the rate file, None when unreadable
    maxy, maxx,  \* screen.getmaxyx(): the terminal's rows and columns
    win_hdr, win_rx, win_tx,
    panel,       \* what draw_panel last computed for a chart
    csv_args,    \* args.csv, args.csv_append, args.csv_headers
    csv_on,      \* csv_writer is not None
    csv_rows,    \* the rows this run has written to the sink
    csv_flushed, \* how many of them a flush has pushed out
    primed,      \* history: the snapshot the priming read returned
    last_ok,     \* history: the snapshot the latest successful read returned
    total        \* history: per field, the sum of the deltas of the successful ticks

vars == <<pc, dir_exists, files, link_layer, duration, units, errmsg, paths,
          prev, prev_t, cur, delta, rates, paused, data_mode, info_mode,
          fast_switch, rx_hist, tx_hist, keys, clock, start_time, tick, painted,
          rate, maxy, maxx, win_hdr, win_rx, win_tx, panel,
          csv_args, csv_on, csv_rows, csv_flushed, primed, last_ok, total>>

envVars == <<dir_exists, files, link_layer, duration, rate, csv_args>>
termVars == <<maxy, maxx>>
winVars == <<win_hdr, win_rx, win_tx>>
csvVars == <<csv_on, csv_rows, csv_flushed>>
tallyVars == <<primed, last_ok, total>>
sampleVars == <<prev, prev_t, cur, delta, rates>>
histVars == <<rx_hist, tx_hist>>
viewVars == <<paused, data_mode, info_mode, units>>

(***************************************************************************)
(* Counter resolution                                                      *)
(***************************************************************************)
RECURSIVE first_existing_from(_, _, _)
first_existing_from(base, names, i) ==
    IF i > Len(names) THEN None
    ELSE IF names[i] \in base THEN names[i]
    ELSE first_existing_from(base, names, i + 1)

\* the last name of the list that exists under base
first_existing_last(base, names) ==
    LET found == {i \in DOMAIN names : names[i] \in base}
    IN  IF found = {} THEN None
        ELSE names[CHOOSE i \in found : \A j \in found : j <= i]

\* the first name of the list that exists under base, None when none does
first_existing(base, names) == first_existing_from(base, names, 1)

\* the link-layer strings s with s.lower().startswith("infiniband")
IbStrings == {"InfiniBand"}

CounterPaths(base, is_ib) ==
    LET txd == first_existing(base, TxDataNames)
        rxd == first_existing(base, RxDataNames)
    IN  [is_ib |-> is_ib,
         tx_data |-> txd,
         rx_data |-> rxd,
         tx_pkts |-> first_existing(base, TxPktsNames),
         rx_pkts |-> first_existing(base, RxPktsNames),
         data_is_words |-> (txd = "port_xmit_data") \/ (rxd = "port_rcv_data")]

MetricNames == <<"tx_data", "rx_data", "tx_pkts", "rx_pkts">>

\* the "missing" list of resolve_counters, in the order it is built
MissingOf(p) == SelectSeq(MetricNames, LAMBDA m : p[m] = None)

\* resolve_counters that lets a directory with missing counters through
resolve_counters_nocheck(isdir, base, ll) ==
    IF ~isdir
    THEN [ok |-> FALSE, err |-> [kind |-> "CountersPathNotFound", missing |-> <<>>]]
    ELSE [ok |-> TRUE, paths |-> CounterPaths(base, (IF ll = None THEN "" ELSE ll) \in IbStrings)]

resolve_counters(isdir, base, ll) ==
    IF ~isdir
    THEN [ok |-> FALSE, err |-> [kind |-> "CountersPathNotFound", missing |-> <<>>]]
    ELSE LET is_ib == (IF ll = None THEN "" ELSE ll) \in IbStrings
             p == CounterPaths(base, is_ib)
         IN  IF MissingOf(p) # <<>>
             THEN [ok |-> FALSE,
                   err |-> [kind |-> "MissingCounterFiles", missing |-> MissingOf(p)]]
             ELSE [ok |-> TRUE, paths |-> p]

\* read_counters: raises when any of the four reads gave None
read_counters(vals) ==
    IF vals.unreadable # {}
    THEN [ok |-> FALSE]
    ELSE [ok |-> TRUE, val |-> vals.val]

(***************************************************************************)
(* Rate history: deque(maxlen = HistCap)                                   *)
(***************************************************************************)
HistCap == 4096

\* a deque that refuses the new sample once full
DequeAppend_dropnew(h, v) ==
    IF Len(h) >= HistCap THEN h ELSE Append(h, v)

DequeAppend(h, v) ==
    IF Len(h) >= HistCap THEN Append(Tail(h), v) ELSE Append(h, v)

(***************************************************************************)
(* Layout: the header and the two panels, lines 326-349                    *)
(***************************************************************************)
\* win_hdr = win_rx = win_tx = None, lines 249-251
NoWin == [made |-> FALSE, h |-> 0, w |-> 0, y |-> 0, x |-> 0]

\* curses.newwin(nlines, ncols, begin_y, begin_x)
NewWin(h, w, y, x) == [made |-> TRUE, h |-> h, w |-> w, y |-> y, x |-> x]

\* line 328: hdr_h = 4
HdrH == 4

\* lines 330-331: the floor of the rows given to the panels
MinRemaining == 6

\* lines 329-331 without the floor
Remaining_nofloor(my) == my - HdrH

\* lines 329-331: remaining = maxy - hdr_h, raised to the floor
Remaining(my) == IF my - HdrH < MinRemaining THEN MinRemaining ELSE my - HdrH

\* lines 332-333
RxH(my) == Remaining(my) \div 2
TxH(my) == Remaining(my) - RxH(my)

\* lines 340-349: a window is replaced only when its size differs
Recreate(win, h, w, y, x) ==
    IF win.h # h \/ win.w # w THEN NewWin(h, w, y, x) ELSE win

\* lines 327-349: the three windows after the layout step
Layout(my, mx, wh, wr, wt) ==
    IF ~wh.made \/ ~wr.made \/ ~wt.made
    THEN <<NewWin(HdrH, mx, 0, 0),
           NewWin(RxH(my), mx, HdrH, 0),
           NewWin(TxH(my), mx, HdrH + RxH(my), 0)>>
    ELSE <<Recreate(wh, HdrH, mx, 0, 0),
           Recreate(wr, RxH(my), mx, HdrH, 0),
           Recreate(wt, TxH(my), mx, HdrH + RxH(my), 0)>>

\* the terminal of the runs that do not resize it
StdTerm == [rows |-> 24, cols |-> 80]

\* the terminal before the first frame: no window exists yet
FreshDisplay ==
    /\ maxy = StdTerm.rows /\ maxx = StdTerm.cols
    /\ win_hdr = NoWin /\ win_rx = NoWin /\ win_tx = NoWin

\* what draw_panel computed, before any chart is drawn
NoPanel == [drawn |-> FALSE, maxv |-> 0, bars |-> <<>>]

\* the program run without --csv
NoCsv == [path |-> FALSE, append |-> FALSE, headers |-> FALSE]
NoCsvSink == csv_on = FALSE /\ csv_rows = <<>> /\ csv_flushed = 0

\* the history variables before the priming read, and after a priming read
\* of snapshot p followed by successful reads that end with snapshot c
NoDeltas == [f \in Fields |-> Num(0)]
NoTally == primed = Unbound /\ last_ok = Unbound /\ total = NoDeltas
TallyAt(p, c) ==
    /\ primed = p
    /\ last_ok = c
    /\ total = [f \in Fields |-> PySub(c[f], p[f])]

\* the rate file of the runs that do not vary it
StdRate == "100 Gb/sec (4X EDR)"

(***************************************************************************)
(* The CSV sink, lines 229-242 and 318-324                                 *)
(***************************************************************************)
\* what open(), writerow() and flush() do at one use of the sink: TRUE when
\* the call returns, FALSE when it raises
CsvIo == [open : BOOLEAN, write : BOOLEAN, flush : BOOLEAN]
IoOk == [open |-> TRUE, write |-> TRUE, flush |-> TRUE]

\* line 238: the header row
HeaderRow == [kind |-> "header", t |-> 0, rates |-> UnboundRates]

\* line 320: the row of a tick, the time and the four rates
DataRow(now, r) == [kind |-> "data", t |-> now, rates |-> r]

\* lines 230-242: open the sink and write the header; any exception leaves
\* csv_file and csv_writer None
CsvSetup(args, io) ==
    IF ~args.path THEN [on |-> FALSE, rows |-> <<>>, flushed |-> 0]
    ELSE LET header == ~args.append \/ args.headers
             wrote == io.open /\ header /\ io.write
         IN  [on |-> io.open /\ (header => io.write /\ io.flush),
              rows |-> IF wrote THEN <<HeaderRow>> ELSE <<>>,
              flushed |-> IF wrote /\ io.flush THEN 1 ELSE 0]

\* lines 319-324: writerow is not guarded, a failed flush is ignored
CsvLog(on, rows, flushed, row, io) ==
    IF ~on THEN [raised |-> FALSE, rows |-> rows, flushed |-> flushed]
    ELSE IF ~io.write THEN [raised |-> TRUE, rows |-> rows, flushed |-> flushed]
    ELSE [raised |-> FALSE,
          rows |-> Append(rows, row),
          flushed |-> IF io.flush THEN Len(rows) + 1 ELSE flushed]

(***************************************************************************)
(* The program: draw()                                                     *)
(***************************************************************************)
Init ==
    /\ pc = "start"
    /\ dir_exists \in BOOLEAN
    /\ files \in FsChoices
    /\ dir_exists \/ files = {}
    /\ link_layer \in LinkLayers
    /\ duration \in Durations
    /\ units \in UnitModes
    /\ errmsg = None
    /\ paths = Unbound
    /\ prev = Unbound /\ prev_t = Unbound /\ cur = Unbound
    /\ delta = Unbound /\ rates = UnboundRates
    /\ paused = Unbound /\ data_mode = Unbound /\ info_mode = Unbound
    /\ fast_switch = Unbound
    /\ rx_hist = Unbound /\ tx_hist = Unbound
    /\ keys = <<>>
    /\ clock = 0
    /\ start_time = Unbound
    /\ tick = "none"
    /\ painted = FALSE
    /\ rate = StdRate
    /\ FreshDisplay
    /\ panel = NoPanel
    /\ NoTally
    /\ csv_args = NoCsv
    /\ NoCsvSink

\* lines 209-217: resolve, or show the error
Resolve ==
    /\ pc = "start"
    /\ LET r == resolve_counters(dir_exists, files, link_layer)
       IN  IF r.ok
           THEN /\ paths' = r.paths
                /\ pc' = "prime"
                /\ UNCHANGED errmsg
           ELSE /\ errmsg' = r.err
                /\ pc' = "error"
                /\ UNCHANGED paths
    /\ UNCHANGED <<envVars, tallyVars, termVars, winVars, panel, csvVars, units, sampleVars, paused, data_mode, info_mode,
                   fast_switch, histVars, keys, clock, start_time, tick, painted>>

\* line 216-217: screen.getch() under nodelay, then return
ErrGetch ==
    /\ pc = "error"
    /\ keys' = IF keys = <<>> THEN keys ELSE Tail(keys)
    /\ pc' = "error_exit"
    /\ UNCHANGED <<envVars, tallyVars, termVars, winVars, panel, csvVars, units, errmsg, paths, sampleVars, paused, data_mode,
                   info_mode, fast_switch, histVars, clock, start_time, tick, painted>>

\* lines 223-261 with a priming read that succeeds; the loop is entered
PrimeOk(vals, io) ==
    /\ pc = "prime"
    /\ read_counters(vals).ok
    /\ LET sink == CsvSetup(csv_args, io)
       IN  /\ csv_on' = sink.on
           /\ csv_rows' = sink.rows
           /\ csv_flushed' = sink.flushed
    /\ prev' = read_counters(vals).val
    /\ prev_t' = clock
    /\ paused' = FALSE
    /\ data_mode' = FALSE
    /\ info_mode' = FALSE
    /\ rx_hist' = <<>>
    /\ tx_hist' = <<>>
    /\ start_time' = clock
    /\ fast_switch' = FALSE
    /\ tick' = "none"
    /\ painted' = FALSE
    /\ primed' = read_counters(vals).val
    /\ last_ok' = read_counters(vals).val
    /\ total' = NoDeltas
    /\ pc' = "drain"
    /\ UNCHANGED <<envVars, termVars, winVars, panel, units, errmsg, paths, cur,
                   delta, rates, keys, clock>>

\* line 223 raising: read_counters is not guarded outside the loop
PrimeFail(vals) ==
    /\ pc = "prime"
    /\ ~read_counters(vals).ok
    /\ pc' = "prime_crash"
    /\ UNCHANGED <<envVars, tallyVars, termVars, winVars, panel, csvVars, units, errmsg, paths, sampleVars, paused, data_mode,
                   info_mode, fast_switch, histVars, keys, clock, start_time, tick,
                   painted>>

QuitKeys == {"q", "Q"}
PauseKeys == {"p", "P"}
UnitKeys == {"u", "U"}
DataKeys == {"d", "D"}
InfoKeys == {"i", "I"}
HandledKeys == QuitKeys \cup PauseKeys \cup UnitKeys \cup DataKeys \cup InfoKeys

\* line 370: the view the header names
View(dm, im) == IF dm THEN "DATA" ELSE IF im THEN "INFO" ELSE "PLOT"

\* lines 265-267: getch() returns -1, the drain ends
GetchNone ==
    /\ pc = "drain"
    /\ keys = <<>>
    /\ pc' = "sample"
    /\ UNCHANGED <<envVars, tallyVars, termVars, winVars, panel, csvVars, units, errmsg, paths, sampleVars, paused, data_mode,
                   info_mode, fast_switch, histVars, keys, clock, start_time, tick,
                   painted>>

\* lines 268-269
KeyQuit ==
    /\ pc = "drain"
    /\ keys # <<>> /\ Head(keys) \in QuitKeys
    /\ keys' = Tail(keys)
    /\ pc' = "exited"
    /\ UNCHANGED <<envVars, tallyVars, termVars, winVars, panel, csvVars, units, errmsg, paths, sampleVars, paused, data_mode,
                   info_mode, fast_switch, histVars, clock, start_time, tick, painted>>

\* lines 270-273
KeyPause ==
    /\ pc = "drain"
    /\ keys # <<>> /\ Head(keys) \in PauseKeys
    /\ keys' = Tail(keys)
    /\ paused' = ~paused
    /\ fast_switch' = TRUE
    /\ pc' = "sample"
    /\ UNCHANGED <<envVars, tallyVars, termVars, winVars, panel, csvVars, units, errmsg, paths, sampleVars, data_mode, info_mode,
                   histVars, clock, start_time, tick, painted>>

\* lines 274-277
KeyUnit ==
    /\ pc = "drain"
    /\ keys # <<>> /\ Head(keys) \in UnitKeys
    /\ keys' = Tail(keys)
    /\ units' = IF units = "bits" THEN "bytes" ELSE "bits"
    /\ fast_switch' = TRUE
    /\ pc' = "sample"
    /\ UNCHANGED <<envVars, tallyVars, termVars, winVars, panel, csvVars, errmsg, paths, sampleVars, paused, data_mode, info_mode,
                   histVars, clock, start_time, tick, painted>>

\* the raw-view key without the line that clears info_mode
KeyData_noclear ==
    /\ pc = "drain"
    /\ keys # <<>> /\ Head(keys) \in DataKeys
    /\ keys' = Tail(keys)
    /\ data_mode' = ~data_mode
    /\ info_mode' = info_mode
    /\ fast_switch' = TRUE
    /\ pc' = "sample"
    /\ UNCHANGED <<envVars, tallyVars, termVars, winVars, panel, csvVars, units, errmsg, paths, sampleVars, paused, histVars,
                   clock, start_time, tick, painted>>

\* lines 278-283
KeyData ==
    /\ pc = "drain"
    /\ keys # <<>> /\ Head(keys) \in DataKeys
    /\ keys' = Tail(keys)
    /\ data_mode' = ~data_mode
    /\ info_mode' = IF data_mode' THEN FALSE ELSE info_mode
    /\ fast_switch' = TRUE
    /\ pc' = "sample"
    /\ UNCHANGED <<envVars, tallyVars, termVars, winVars, panel, csvVars, units, errmsg, paths, sampleVars, paused, histVars,
                   clock, start_time, tick, painted>>

\* the address-view key setting rather than toggling info_mode
KeyInfo_set ==
    /\ pc = "drain"
    /\ keys # <<>> /\ Head(keys) \in InfoKeys
    /\ keys' = Tail(keys)
    /\ info_mode' = TRUE
    /\ data_mode' = FALSE
    /\ fast_switch' = TRUE
    /\ pc' = "sample"
    /\ UNCHANGED <<envVars, tallyVars, termVars, winVars, panel, csvVars, units, errmsg, paths, sampleVars, paused, histVars,
                   clock, start_time, tick, painted>>

\* lines 284-289
KeyInfo ==
    /\ pc = "drain"
    /\ keys # <<>> /\ Head(keys) \in InfoKeys
    /\ keys' = Tail(keys)
    /\ info_mode' = ~info_mode
    /\ data_mode' = IF info_mode' THEN FALSE ELSE data_mode
    /\ fast_switch' = TRUE
    /\ pc' = "sample"
    /\ UNCHANGED <<envVars, tallyVars, termVars, winVars, panel, csvVars, units, errmsg, paths, sampleVars, paused, histVars,
                   clock, start_time, tick, painted>>

\* lines 264-265: any other key is consumed and the drain goes on
KeyOther ==
    /\ pc = "drain"
    /\ keys # <<>> /\ Head(keys) \notin HandledKeys
    /\ keys' = Tail(keys)
    /\ UNCHANGED <<pc, envVars, tallyVars, termVars, winVars, panel, csvVars, units, errmsg, paths, sampleVars, paused, data_mode,
                   info_mode, fast_switch, histVars, clock, start_time, tick, painted>>

\* line 291 sampling also while paused
SamplingDue_ignorepause == ~fast_switch

\* line 291: the condition of the sampling step
SamplingDue == ~paused /\ ~fast_switch

\* line 295: dt = max(1e-9, now - prev_t)
ElapsedNs(now, pt) == IF now - pt < EpsNs THEN EpsNs ELSE now - pt

\* lines 298-300: the data deltas are multiplied by 4 when is_ib
ScaleData(d, p) ==
    IF p.is_ib THEN [f \in Fields |-> IF f \in {1, 2} THEN PyMul(d[f], 4) ELSE d[f]]
    ELSE d

\* lines 302-305: a rate is the quotient d / dt, dt in clock units
ToRates(d, dt) ==
    [bound |-> TRUE,
     tx_Bps |-> [d |-> d[1], dt |-> dt],
     rx_Bps |-> [d |-> d[2], dt |-> dt],
     tx_pps |-> [d |-> d[3], dt |-> dt],
     rx_pps |-> [d |-> d[4], dt |-> dt]]

\* lines 292-324 when the read succeeds
SampleOk(vals, io) ==
    /\ pc = "sample"
    /\ SamplingDue
    /\ read_counters(vals).ok
    /\ LET c == read_counters(vals).val
           now == clock
           dt == ElapsedNs(now, prev_t)
           d == ScaleData(diff_counters(prev, c), paths)
       IN  /\ cur' = c
           /\ delta' = d
           /\ rates' = ToRates(d, dt)
           /\ prev' = c
           /\ prev_t' = now
    /\ rx_hist' = DequeAppend(rx_hist, rates'.rx_Bps)
    /\ tx_hist' = DequeAppend(tx_hist, rates'.tx_Bps)
    /\ tick' = "ok"
    /\ LET log == CsvLog(csv_on, csv_rows, csv_flushed, DataRow(clock, rates'), io)
       IN  /\ csv_rows' = log.rows
           /\ csv_flushed' = log.flushed
           /\ pc' = IF log.raised THEN "crashed" ELSE "paint"
    /\ last_ok' = read_counters(vals).val
    /\ total' = [f \in Fields |->
                    PyAdd(total[f], diff_counters(prev, read_counters(vals).val)[f])]
    /\ UNCHANGED <<envVars, primed, termVars, winVars, panel, csv_on, units, errmsg, paths, paused, data_mode, info_mode,
                   fast_switch, keys, clock, start_time, painted>>

\* a failed read that skips the history append
SampleFail_noappend(vals, io) ==
    /\ pc = "sample"
    /\ SamplingDue
    /\ ~read_counters(vals).ok
    /\ tick' = "fail"
    /\ pc' = "paint"
    /\ UNCHANGED <<envVars, tallyVars, termVars, winVars, panel, csvVars, units, errmsg, paths, sampleVars, histVars, paused,
                   data_mode, info_mode, fast_switch, keys, clock, start_time, painted>>

\* a failed read that zeroes the rates
SampleFail_zero(vals, io) ==
    /\ pc = "sample"
    /\ SamplingDue
    /\ ~read_counters(vals).ok
    /\ rates' = ToRates([f \in Fields |-> Num(0)], EpsNs)
    /\ rx_hist' = DequeAppend(rx_hist, rates'.rx_Bps)
    /\ tx_hist' = DequeAppend(tx_hist, rates'.tx_Bps)
    /\ tick' = "fail"
    /\ pc' = "paint"
    /\ UNCHANGED <<envVars, tallyVars, termVars, winVars, panel, csvVars, units, errmsg, paths, prev, prev_t, cur, delta, paused,
                   data_mode, info_mode, fast_switch, keys, clock, start_time, painted>>

\* a failed read that appends to the histories and writes no row
SampleFail_nolog(vals, io) ==
    /\ pc = "sample"
    /\ SamplingDue
    /\ ~read_counters(vals).ok
    /\ tick' = "fail"
    /\ IF ~rates.bound
       THEN /\ pc' = "crashed"
            /\ UNCHANGED histVars
       ELSE /\ rx_hist' = DequeAppend(rx_hist, rates.rx_Bps)
            /\ tx_hist' = DequeAppend(tx_hist, rates.tx_Bps)
            /\ pc' = "paint"
    /\ UNCHANGED <<envVars, tallyVars, termVars, winVars, panel, csvVars, units, errmsg, paths,
                   sampleVars, paused, data_mode, info_mode, fast_switch, keys,
                   clock, start_time, painted>>

\* SampleFail retaining what the failed read did return as the snapshot
SampleFail_advance(vals, io) ==
    /\ pc = "sample"
    /\ SamplingDue
    /\ ~read_counters(vals).ok
    /\ tick' = "fail"
    /\ prev' = vals.val
    /\ IF ~rates.bound
       THEN /\ pc' = "crashed"
            /\ UNCHANGED <<histVars, csv_rows, csv_flushed>>
       ELSE /\ rx_hist' = DequeAppend(rx_hist, rates.rx_Bps)
            /\ tx_hist' = DequeAppend(tx_hist, rates.tx_Bps)
            /\ LET log == CsvLog(csv_on, csv_rows, csv_flushed,
                                 DataRow(clock, rates), io)
               IN  /\ csv_rows' = log.rows
                   /\ csv_flushed' = log.flushed
                   /\ pc' = IF log.raised THEN "crashed" ELSE "paint"
    /\ UNCHANGED <<envVars, tallyVars, termVars, winVars, panel, csv_on, units, errmsg, paths,
                   prev_t, cur, delta, rates, paused, data_mode, info_mode,
                   fast_switch, keys, clock, start_time, painted>>

\* lines 292-324 when read_counters raises: the except clause keeps every
\* value, then line 315 appends rx_Bps and tx_Bps, which raises
\* UnboundLocalError when no read has succeeded yet; the row of the tick
\* repeats the retained rates at the time of the tick
SampleFail(vals, io) ==
    /\ pc = "sample"
    /\ SamplingDue
    /\ ~read_counters(vals).ok
    /\ tick' = "fail"
    /\ IF ~rates.bound
       THEN /\ pc' = "crashed"
            /\ UNCHANGED <<histVars, csv_rows, csv_flushed>>
       ELSE /\ rx_hist' = DequeAppend(rx_hist, rates.rx_Bps)
            /\ tx_hist' = DequeAppend(tx_hist, rates.tx_Bps)
            /\ LET log == CsvLog(csv_on, csv_rows, csv_flushed,
                                 DataRow(clock, rates), io)
               IN  /\ csv_rows' = log.rows
                   /\ csv_flushed' = log.flushed
                   /\ pc' = IF log.raised THEN "crashed" ELSE "paint"
    /\ UNCHANGED <<envVars, tallyVars, termVars, winVars, panel, csv_on, units, errmsg, paths,
                   sampleVars, paused, data_mode, info_mode, fast_switch, keys,
                   clock, start_time, painted>>

\* line 291 false: no sampling step in this iteration
SkipSample ==
    /\ pc = "sample"
    /\ ~SamplingDue
    /\ pc' = "paint"
    /\ UNCHANGED <<envVars, tallyVars, termVars, winVars, panel, csvVars, units, errmsg, paths, sampleVars, paused, data_mode,
                   info_mode, fast_switch, histVars, keys, clock, start_time, tick,
                   painted>>

\* a frame that drops the samples the chart cannot show
Paint_trim ==
    /\ pc = "paint"
    /\ LET wins == Layout(maxy, maxx, win_hdr, win_rx, win_tx)
       IN  win_hdr' = wins[1] /\ win_rx' = wins[2] /\ win_tx' = wins[3]
    /\ rx_hist' = IF rx_hist = <<>> THEN rx_hist ELSE Tail(rx_hist)
    /\ tx_hist' = IF tx_hist = <<>> THEN tx_hist ELSE Tail(tx_hist)
    /\ IF View(data_mode, info_mode) = "PLOT" /\ ~rates.bound
       THEN /\ pc' = "crashed"
            /\ UNCHANGED painted
       ELSE /\ painted' = TRUE
            /\ pc' = "durcheck"
    /\ UNCHANGED <<envVars, tallyVars, termVars, panel, csvVars, units, errmsg, paths,
                   sampleVars, paused, data_mode, info_mode, fast_switch, keys,
                   clock, start_time, tick>>

\* lines 326-590: layout, header and panels.  The Plot view passes rx_Bps and
\* tx_Bps to draw_panel (line 485), which raises UnboundLocalError when no
\* read has succeeded yet; the other views do not use them.
Paint ==
    /\ pc = "paint"
    /\ LET wins == Layout(maxy, maxx, win_hdr, win_rx, win_tx)
       IN  win_hdr' = wins[1] /\ win_rx' = wins[2] /\ win_tx' = wins[3]
    /\ IF View(data_mode, info_mode) = "PLOT" /\ ~rates.bound
       THEN /\ pc' = "crashed"
            /\ UNCHANGED painted
       ELSE /\ painted' = TRUE
            /\ pc' = "durcheck"
    /\ UNCHANGED <<envVars, tallyVars, termVars, panel, csvVars, units, errmsg, paths, sampleVars, paused, data_mode,
                   info_mode, fast_switch, histVars, keys, clock, start_time, tick>>

\* line 598 with the duration checked only while sampling runs
DurationReached_unpaused == ~paused /\ duration > 0 /\ clock - start_time >= duration

\* line 598
DurationReached == duration > 0 /\ clock - start_time >= duration

\* lines 598-599: break
DurExit ==
    /\ pc = "durcheck"
    /\ DurationReached
    /\ pc' = "exited"
    /\ UNCHANGED <<envVars, tallyVars, termVars, winVars, panel, csvVars, units, errmsg, paths, sampleVars, paused, data_mode,
                   info_mode, fast_switch, histVars, keys, clock, start_time, tick,
                   painted>>

\* line 598 false, then lines 259-261: the next iteration starts
DurContinue ==
    /\ pc = "durcheck"
    /\ ~DurationReached
    /\ fast_switch' = FALSE
    /\ tick' = "none"
    /\ painted' = FALSE
    /\ pc' = "drain"
    /\ UNCHANGED <<envVars, tallyVars, termVars, winVars, panel, csvVars, units, errmsg, paths, sampleVars, paused, data_mode,
                   info_mode, histVars, keys, clock, start_time>>

(***************************************************************************)
(* The environment: the user's keys and the passing of time                *)
(***************************************************************************)
\* a key reaches the input buffer while the program waits in getch()
KeyPress(k) ==
    /\ pc \in {"drain", "error"}
    /\ keys' = Append(keys, k)
    /\ UNCHANGED <<pc, envVars, tallyVars, termVars, winVars, panel, csvVars, units, errmsg, paths, sampleVars, paused, data_mode,
                   info_mode, fast_switch, histVars, clock, start_time, tick, painted>>

\* a second passes while the program waits in getch()
Advance ==
    /\ pc = "drain"
    /\ clock' = clock + NsPerSec
    /\ UNCHANGED <<pc, envVars, tallyVars, termVars, winVars, panel, csvVars, units, errmsg, paths, sampleVars, paused, data_mode,
                   info_mode, fast_switch, histVars, keys, start_time, tick, painted>>

\* the outcomes of the sink's calls that matter: at the setup when --csv is
\* given, at a tick while the sink is open
SetupIo == IF csv_args.path THEN CsvIo ELSE {IoOk}
LogIo == IF csv_on THEN {io \in CsvIo : io.open} ELSE {IoOk}

\* the bounds of the exploration
SampleBudget == Len(rx_hist) < MaxSamples
KeyBudget == Len(keys) < MaxKeys
ClockBudget == clock \div NsPerSec < MaxClockSec

Next ==
    \/ Resolve
    \/ ErrGetch
    \/ \E vals \in FileReads, io \in SetupIo : PrimeOk(vals, io)
    \/ \E vals \in FileReads : PrimeFail(vals)
    \/ GetchNone
    \/ KeyQuit
    \/ KeyPause
    \/ KeyUnit
    \/ KeyData
    \/ KeyInfo
    \/ KeyOther
    \/ \E vals \in FileReads, io \in LogIo : SampleBudget /\ SampleOk(vals, io)
    \/ \E vals \in FileReads, io \in LogIo : SampleBudget /\ SampleFail(vals, io)
    \/ SkipSample
    \/ Paint
    \/ DurExit
    \/ DurContinue
    \/ \E k \in Keys : KeyBudget /\ KeyPress(k)
    \/ ClockBudget /\ Advance

Spec == Init /\ [][Next]_vars

(***************************************************************************)
(* diff_counters on its own: SpecDiff draws two snapshots and applies it   *)
(***************************************************************************)
\* counter values in [0, 2^64), small ones and ones next to the wrap
U64Samples ==
    {Num(0), Num(1), Num(500), Num(1000), Num(1500), Two64Minus(616), Two64Minus(1)}
DiffSnapshots == {<<v, w, w, v>> : v, w \in U64Samples}

InitDiff ==
    /\ pc = "diff"
    /\ prev \in DiffSnapshots
    /\ cur \in DiffSnapshots
    /\ delta = Unbound
    /\ dir_exists = TRUE /\ files = CanonicalNames /\ link_layer = "InfiniBand"
    /\ duration = 0 /\ units = "bits" /\ errmsg = None /\ paths = Unbound
    /\ prev_t = Unbound /\ rates = UnboundRates
    /\ paused = Unbound /\ data_mode = Unbound /\ info_mode = Unbound
    /\ fast_switch = Unbound /\ rx_hist = Unbound /\ tx_hist = Unbound
    /\ keys = <<>> /\ clock = 0 /\ start_time = Unbound
    /\ tick = "none" /\ painted = FALSE
    /\ rate = StdRate /\ FreshDisplay /\ panel = NoPanel
    /\ NoTally
    /\ csv_args = NoCsv /\ NoCsvSink

\* line 296: d_txB, d_rxB, d_txp, d_rxp = diff_counters(prev, cur)
DiffApply ==
    /\ pc = "diff"
    /\ delta' = diff_counters(prev, cur)
    /\ pc' = "diffed"
    /\ UNCHANGED <<envVars, tallyVars, termVars, winVars, panel, csvVars, units, errmsg, paths, prev, prev_t, cur, rates, paused,
                   data_mode, info_mode, fast_switch, histVars, keys, clock,
                   start_time, tick, painted>>

NextDiff == DiffApply

SpecDiff == InitDiff /\ [][NextDiff]_vars

(***************************************************************************)
(* The histories at capacity: SpecHist runs the loop with reads that       *)
(* always succeed, the n-th read raising the counters so that the n-th     *)
(* receive rate is 4n and the n-th transmit rate is 8n per clock unit.  It *)
(* starts in the state the loop is in at the top of the iteration that     *)
(* follows the (HistCap - 1)-th such sample.                               *)
(***************************************************************************)
MaxExtra == 2        \* samples appended beyond the capacity

\* the value of a magnitude below LimbBase^2
ToNat(m) == m[1] + m[2] * LimbBase

\* what the counter files hold at the n-th steady read
SteadyVal(n) == <<Num(n * (n + 1)), Num((n * (n + 1)) \div 2), Num(n), Num(0)>>

\* the deltas of the n-th steady sample on an InfiniBand link
SteadyDelta(n) == <<Num(8 * n), Num(4 * n), Num(1), Num(0)>>

InitHist ==
    /\ pc = "drain"
    /\ dir_exists = TRUE /\ files = CanonicalNames /\ link_layer = "InfiniBand"
    /\ duration = 0 /\ units = "bits" /\ errmsg = None
    /\ paths = CounterPaths(CanonicalNames, TRUE)
    /\ prev = SteadyVal(HistCap - 1)
    /\ cur = SteadyVal(HistCap - 1)
    /\ prev_t = 0
    /\ delta = SteadyDelta(HistCap - 1)
    /\ rates = ToRates(SteadyDelta(HistCap - 1), EpsNs)
    /\ paused = FALSE /\ data_mode = FALSE /\ info_mode = FALSE
    /\ fast_switch = FALSE
    /\ rx_hist = [j \in 1..(HistCap - 1) |-> ToRates(SteadyDelta(j), EpsNs).rx_Bps]
    /\ tx_hist = [j \in 1..(HistCap - 1) |-> ToRates(SteadyDelta(j), EpsNs).tx_Bps]
    /\ keys = <<>> /\ clock = 0 /\ start_time = 0
    /\ tick = "none" /\ painted = FALSE
    /\ rate = StdRate /\ FreshDisplay /\ panel = NoPanel
    /\ TallyAt(SteadyVal(0), SteadyVal(HistCap - 1))
    /\ csv_args = NoCsv /\ NoCsvSink

\* the samples taken so far: the packet counter rises by one per read
SamplesTaken == ToNat(prev[3].mag)

SteadyRead == [val |-> SteadyVal(SamplesTaken + 1), unreadable |-> {}]

HistBudget == SamplesTaken < HistCap + MaxExtra

NextHist ==
    \/ GetchNone
    \/ KeyPause
    \/ KeyData
    \/ KeyOther
    \/ HistBudget /\ SampleOk(SteadyRead, IoOk)
    \/ SkipSample
    \/ Paint
    \/ DurContinue
    \/ \E k \in {"p", "d", "x"} : KeyBudget /\ KeyPress(k)

SpecHist == InitHist /\ [][NextHist]_vars

(***************************************************************************)
(* The layout under terminal resizes: SpecLayout runs the loop from its    *)
(* first iteration on a terminal whose size changes between frames.        *)
(***************************************************************************)
MaxRows == 12        \* the tallest terminal explored
TermRows == 1..MaxRows
TermCols == {40, 80}

\* the terminal is resized while the program waits in getch(); the windows
\* the program holds keep the geometry they were created with
Resize(my, mx) ==
    /\ pc = "drain"
    /\ <<my, mx>> # <<maxy, maxx>>
    /\ maxy' = my
    /\ maxx' = mx
    /\ UNCHANGED <<pc, envVars, tallyVars, winVars, panel, csvVars, units, errmsg, paths,
                   sampleVars, paused, data_mode, info_mode, fast_switch, histVars,
                   keys, clock, start_time, tick, painted>>

\* the top of the first iteration, after a priming read of ReadA
InitLayout ==
    /\ pc = "drain"
    /\ dir_exists = TRUE /\ files = CanonicalNames /\ link_layer = "InfiniBand"
    /\ duration = 0 /\ units = "bits" /\ errmsg = None
    /\ paths = CounterPaths(CanonicalNames, TRUE)
    /\ prev = ReadA /\ prev_t = 0 /\ cur = Unbound /\ delta = Unbound
    /\ rates = UnboundRates
    /\ paused = FALSE /\ data_mode = FALSE /\ info_mode = FALSE
    /\ fast_switch = FALSE
    /\ rx_hist = <<>> /\ tx_hist = <<>>
    /\ keys = <<>> /\ clock = 0 /\ start_time = 0
    /\ tick = "none" /\ painted = FALSE
    /\ rate = StdRate
    /\ maxy \in TermRows /\ maxx \in TermCols
    /\ win_hdr = NoWin /\ win_rx = NoWin /\ win_tx = NoWin
    /\ panel = NoPanel
    /\ TallyAt(ReadA, ReadA)
    /\ csv_args = NoCsv /\ NoCsvSink

NextLayout ==
    \/ GetchNone
    \/ KeyPause
    \/ SampleBudget /\ SampleOk([val |-> ReadB, unreadable |-> {}], IoOk)
    \/ SkipSample
    \/ Paint
    \/ DurContinue
    \/ KeyBudget /\ KeyPress("p")
    \/ \E my \in TermRows, mx \in TermCols : Resize(my, mx)

SpecLayout == InitLayout /\ [][NextLayout]_vars

(***************************************************************************)
(* draw_panel: the scale and the bars of a chart.  SpecScale draws a       *)
(* history, a unit mode, a rate file and a panel window, and applies it.   *)
(* Rates are whole bytes per second; the quotient v / maxv * chart_h is     *)
(* held exactly.                                                           *)
(***************************************************************************)
MaxHistLen == 11     \* the longest history drawn

\* parse_rate_gbps, lines 91-99: float(rate_str.split()[0]), None for an
\* empty or unreadable file and for a first token that is not a number; the
\* number is held in thousandths of a Gb/s
parse_rate_gbps(rate_str) ==
    IF rate_str = None \/ rate_str = "" THEN [known |-> FALSE, milli |-> 0]
    ELSE IF rate_str = "0 Gb/sec" THEN [known |-> TRUE, milli |-> 0]
    ELSE IF rate_str = "0.1 Gb/sec" THEN [known |-> TRUE, milli |-> 100]
    ELSE IF rate_str = "1 Gb/sec (1X)" THEN [known |-> TRUE, milli |-> 1000]
    ELSE IF rate_str = StdRate THEN [known |-> TRUE, milli |-> 100000]
    ELSE [known |-> FALSE, milli |-> 0]

\* line 419: link_bps = rate_gbps * 1e9, per thousandth of a Gb/s
BpsPerMilli == 1000000

\* line 402: y_label_w = 12
YLabelW == 12

\* a history entry d / dt as whole bytes per second, dt being whole seconds
SampleBps(r) == ToNat(r.d.mag) \div (r.dt \div NsPerSec)

\* lines 410-411
scaled(v, u) == IF u = "bits" THEN v * 8 ELSE v

\* lines 408-409: the last min(chart_w, len) samples, those the chart shows
VisibleSamples(hist, chart_w) ==
    LET samples == IF chart_w < Len(hist) THEN chart_w ELSE Len(hist)
    IN  SubSeq(hist, Len(hist) - samples + 1, Len(hist))

\* lines 412-416: maxv = 1.0, raised to every larger visible value
RECURSIVE MaxVisible(_, _, _)
MaxVisible(vis, u, i) ==
    IF i = 0 THEN 1
    ELSE LET m == MaxVisible(vis, u, i - 1)
             v == scaled(SampleBps(vis[i]), u)
         IN  IF v > m THEN v ELSE m

\* the link ceiling applied in either unit mode
LinkCeiling_anyunit(maxv, u, rg) ==
    IF rg.known /\ rg.milli # 0
    THEN LET link_bps == rg.milli * BpsPerMilli
         IN  IF link_bps > 0 /\ link_bps < maxv THEN link_bps ELSE maxv
    ELSE maxv

\* lines 417-421: cap to the link rate in bits mode
LinkCeiling(maxv, u, rg) ==
    IF u = "bits" /\ rg.known /\ rg.milli # 0
    THEN LET link_bps == rg.milli * BpsPerMilli
         IN  IF link_bps > 0 /\ link_bps < maxv THEN link_bps ELSE maxv
    ELSE maxv

\* round(v / maxv * chart_h): the integer nearest to v * chart_h / maxv,
\* the even one of the two when it lies halfway
RoundQuot(v, chart_h, maxv) ==
    LET n2 == PyMul(Num(v), 2 * chart_h)
        d == Num(maxv)
        hd2(h) == PyMul(d, 2 * h)
    IN  CHOOSE h \in 0..(chart_h * (v \div maxv + 1)) :
            \/ PyLess(PySub(n2, d), hd2(h)) /\ PyLess(hd2(h), PyAdd(n2, d))
            \/ h % 2 = 0 /\ (hd2(h) = PySub(n2, d) \/ hd2(h) = PyAdd(n2, d))

\* the bar height without the clamp of line 465
BarHeight_noclamp(v, chart_h, maxv) == RoundQuot(v, chart_h, maxv)

\* lines 464-465: h = int(round((v / maxv) * chart_h)), clamped to 0..chart_h
BarHeight(v, chart_h, maxv) ==
    LET h == RoundQuot(v, chart_h, maxv)
        capped == IF chart_h < h THEN chart_h ELSE h
    IN  IF capped < 0 THEN 0 ELSE capped

\* lines 384-475: the scale and the bar heights of one panel; nothing is
\* charted when the window is too small or the history too short
draw_panel(win, hist, u, rate_str) ==
    LET chart_h == win.h - 3
        chart_w == win.w - 2 - YLabelW
    IN  IF chart_h < 3 \/ chart_w < 10 \/ Len(hist) < 2
        THEN NoPanel
        ELSE LET vis == VisibleSamples(hist, chart_w)
                 maxv == LinkCeiling(MaxVisible(vis, u, Len(vis)), u,
                                     parse_rate_gbps(rate_str))
             IN  [drawn |-> TRUE,
                  maxv |-> maxv,
                  bars |-> [i \in 1..Len(vis) |->
                               BarHeight(scaled(SampleBps(vis[i]), u), chart_h, maxv)]]

\* rates in bytes per second: idle, a trickle, 80 Mb/s and 1.6 Gb/s
SampleVals == {0, 1, 2, 10000000, 200000000}
HistLens == {1, 2, 3, MaxHistLen}

\* histories with an oldest sample a, a newest sample b and c between them
HistShapes ==
    {[j \in 1..n |-> [d |-> Num(IF j = 1 THEN a ELSE IF j = n THEN b ELSE c),
                      dt |-> NsPerSec]] :
        a \in SampleVals, b \in SampleVals, c \in SampleVals, n \in HistLens}

ScaleRates == {None, "Unknown", "0 Gb/sec", "0.1 Gb/sec", "1 Gb/sec (1X)"}
PanelRows == {5, 6, 8}
PanelCols == {23, 24, 25}

InitScale ==
    /\ pc = "panel"
    /\ rx_hist \in HistShapes
    /\ tx_hist = rx_hist
    /\ units \in UnitModes
    /\ rate \in ScaleRates
    /\ win_rx \in {NewWin(h, w, HdrH, 0) : h \in PanelRows, w \in PanelCols}
    /\ win_hdr = NewWin(HdrH, win_rx.w, 0, 0)
    /\ win_tx = NewWin(win_rx.h, win_rx.w, HdrH + win_rx.h, 0)
    /\ maxy = HdrH + 2 * win_rx.h /\ maxx = win_rx.w
    /\ panel = NoPanel
    /\ TallyAt(ReadA, ReadA)
    /\ dir_exists = TRUE /\ files = CanonicalNames /\ link_layer = "Ethernet"
    /\ duration = 0 /\ errmsg = None
    /\ paths = CounterPaths(CanonicalNames, FALSE)
    /\ prev = ReadA /\ prev_t = 0 /\ cur = ReadA
    /\ delta = [f \in Fields |-> Num(0)]
    /\ rates = ToRates([f \in Fields |-> Num(0)], NsPerSec)
    /\ paused = FALSE /\ data_mode = FALSE /\ info_mode = FALSE
    /\ fast_switch = FALSE
    /\ keys = <<>> /\ clock = 0 /\ start_time = 0
    /\ tick = "none" /\ painted = FALSE
    /\ csv_args = NoCsv /\ NoCsvSink

\* line 485: draw_panel(win_rx, True, rx_Bps, rx_pps, rx_hist)
DrawPanel ==
    /\ pc = "panel"
    /\ panel' = draw_panel(win_rx, rx_hist, units, rate)
    /\ pc' = "panel_done"
    /\ UNCHANGED <<envVars, tallyVars, termVars, winVars, csvVars, units, errmsg, paths,
                   sampleVars, paused, data_mode, info_mode, fast_switch, histVars,
                   keys, clock, start_time, tick, painted>>

NextScale == DrawPanel

SpecScale == InitScale /\ [][NextScale]_vars

(***************************************************************************)
(* Runs with --duration: SpecTimed is the loop, from the top of its first  *)
(* iteration after a priming read of ReadA, with a duration of one second. *)
(* The program keeps taking its steps, the clock eventually advances while *)
(* the program waits for a key, and the input buffer is eventually found   *)
(* empty.                                                                  *)
(***************************************************************************)
InitTimed ==
    /\ pc = "drain"
    /\ dir_exists = TRUE /\ files = CanonicalNames /\ link_layer = "InfiniBand"
    /\ duration = NsPerSec /\ units = "bits" /\ errmsg = None
    /\ paths = CounterPaths(CanonicalNames, TRUE)
    /\ prev = ReadA /\ prev_t = 0
    \* cur and delta are not read before a sampling step assigns them
    /\ cur = ReadA /\ delta = [f \in Fields |-> Num(0)]
    /\ rates = UnboundRates
    /\ paused = FALSE /\ data_mode = FALSE /\ info_mode = FALSE
    /\ fast_switch = FALSE
    /\ rx_hist = <<>> /\ tx_hist = <<>>
    /\ keys = <<>> /\ clock = 0 /\ start_time = 0
    /\ tick = "none" /\ painted = FALSE
    /\ rate = StdRate /\ FreshDisplay /\ panel = NoPanel
    /\ TallyAt(ReadA, ReadA)
    /\ csv_args = NoCsv /\ NoCsvSink

\* the steps of the program other than an empty getch()
ProgramStep ==
    \/ KeyQuit
    \/ KeyPause
    \/ KeyUnit
    \/ KeyData
    \/ KeyInfo
    \/ KeyOther
    \/ \E vals \in FileReads, io \in LogIo : SampleBudget /\ SampleOk(vals, io)
    \/ \E vals \in FileReads, io \in LogIo : SampleBudget /\ SampleFail(vals, io)
    \/ SkipSample
    \/ Paint
    \/ DurExit
    \/ DurContinue

\* the program drains the input buffer faster than keys arrive: a key is
\* pressed when the keys before it have been read
NextTimed ==
    \/ ProgramStep
    \/ GetchNone
    \/ \E k \in Keys : keys = <<>> /\ KeyPress(k)
    \/ ClockBudget /\ Advance

SpecTimed ==
    /\ InitTimed
    /\ [][NextTimed]_vars
    /\ WF_<<pc, keys>>(ProgramStep)
    /\ SF_pc(GetchNone)
    /\ SF_clock(ClockBudget /\ Advance)

(***************************************************************************)
(* Runs with --csv: SpecCsv is the program from the priming read on, on    *)
(* one device, with a sink whose open, writerow and flush may raise.       *)
(***************************************************************************)
CsvArgs == {a \in [path : BOOLEAN, append : BOOLEAN, headers : BOOLEAN] : a.path}

InitCsv ==
    /\ pc = "prime"
    /\ dir_exists = TRUE /\ files = CanonicalNames /\ link_layer = "InfiniBand"
    /\ duration = 0 /\ units = "bits" /\ errmsg = None
    /\ paths = CounterPaths(CanonicalNames, TRUE)
    /\ prev = Unbound /\ prev_t = Unbound /\ cur = Unbound
    /\ delta = Unbound /\ rates = UnboundRates
    /\ paused = Unbound /\ data_mode = Unbound /\ info_mode = Unbound
    /\ fast_switch = Unbound
    /\ rx_hist = Unbound /\ tx_hist = Unbound
    /\ keys = <<>> /\ clock = 0 /\ start_time = Unbound
    /\ tick = "none" /\ painted = FALSE
    /\ rate = StdRate /\ FreshDisplay /\ panel = NoPanel
    /\ NoTally
    /\ csv_args \in CsvArgs
    /\ NoCsvSink

\* the reads of these runs: ReadA primes, then ReadB or an unreadable file
CsvReads == {[val |-> ReadB, unreadable |-> {}]} \cup BadReads

NextCsv ==
    \/ \E io \in SetupIo : PrimeOk([val |-> ReadA, unreadable |-> {}], io)
    \/ GetchNone
    \/ KeyPause
    \/ KeyData
    \/ \E vals \in CsvReads, io \in LogIo : SampleBudget /\ SampleOk(vals, io)
    \/ \E vals \in CsvReads, io \in LogIo : SampleBudget /\ SampleFail(vals, io)
    \/ SkipSample
    \/ Paint
    \/ DurContinue
    \/ \E k \in {"p", "d"} : KeyBudget /\ KeyPress(k)
    \/ ClockBudget /\ Advance

SpecCsv == InitCsv /\ [][NextCsv]_vars

(***************************************************************************)
(* Resolution on its own: SpecResolve draws any counters directory over    *)
(* the ten accepted names and any link layer, and resolves.                *)
(***************************************************************************)
ResolveLinkLayers == LinkLayers \cup {None}

InitResolve ==
    /\ pc = "start"
    /\ dir_exists \in BOOLEAN
    /\ files \in SUBSET AllNames
    /\ dir_exists \/ files = {}
    /\ link_layer \in ResolveLinkLayers
    /\ duration = 0 /\ units = "bits"
    /\ errmsg = None
    /\ paths = Unbound
    /\ prev = Unbound /\ prev_t = Unbound /\ cur = Unbound
    /\ delta = Unbound /\ rates = UnboundRates
    /\ paused = Unbound /\ data_mode = Unbound /\ info_mode = Unbound
    /\ fast_switch = Unbound
    /\ rx_hist = Unbound /\ tx_hist = Unbound
    /\ keys = <<>> /\ clock = 0 /\ start_time = Unbound
    /\ tick = "none" /\ painted = FALSE
    /\ rate = StdRate /\ FreshDisplay /\ panel = NoPanel
    /\ NoTally
    /\ csv_args = NoCsv /\ NoCsvSink

NextResolve ==
    \/ Resolve
    \/ ErrGetch

SpecResolve == InitResolve /\ [][NextResolve]_vars

(***************************************************************************)
(* The snapshot bookkeeping on its own: SpecTally is the program from the  *)
(* priming read on, on one InfiniBand device without --csv, with counter   *)
(* files that also hold values next to 2^64.                               *)
(***************************************************************************)
ReadHigh == <<Two64Minus(616), Two64Minus(1), Num(10), Num(20)>>
TallyReads ==
    {[val |-> v, unreadable |-> {}] : v \in {ReadA, ReadB, ReadHigh}} \cup BadReads

InitTally ==
    /\ pc = "prime"
    /\ dir_exists = TRUE /\ files = CanonicalNames /\ link_layer = "InfiniBand"
    /\ duration = 0 /\ units = "bits" /\ errmsg = None
    /\ paths = CounterPaths(CanonicalNames, TRUE)
    /\ prev = Unbound /\ prev_t = Unbound /\ cur = Unbound
    /\ delta = Unbound /\ rates = UnboundRates
    /\ paused = Unbound /\ data_mode = Unbound /\ info_mode = Unbound
    /\ fast_switch = Unbound
    /\ rx_hist = Unbound /\ tx_hist = Unbound
    /\ keys = <<>> /\ clock = 0 /\ start_time = Unbound
    /\ tick = "none" /\ painted = FALSE
    /\ rate = StdRate /\ FreshDisplay /\ panel = NoPanel
    /\ NoTally
    /\ csv_args = NoCsv /\ NoCsvSink

NextTally ==
    \/ \E vals \in TallyReads : PrimeOk(vals, IoOk)
    \/ \E vals \in TallyReads : PrimeFail(vals)
    \/ GetchNone
    \/ KeyPause
    \/ KeyData
    \/ KeyOther
    \/ \E vals \in TallyReads : SampleBudget /\ SampleOk(vals, IoOk)
    \/ \E vals \in TallyReads : SampleBudget /\ SampleFail(vals, IoOk)
    \/ SkipSample
    \/ Paint
    \/ DurContinue
    \/ \E k \in {"p", "d", "x"} : KeyBudget /\ KeyPress(k)
    \/ ClockBudget /\ Advance

SpecTally == InitTally /\ [][NextTally]_vars

(***************************************************************************)
(* The input drain with several keys pending: SpecKeys is the program from *)
(* the priming read on, with up to MaxPending keys waiting in the          *)
(* terminal's input buffer, typed at any moment from startup on.           *)
(***************************************************************************)
MaxPending == 2      \* keys pending in the input buffer in these runs

PendingBudget == Len(keys) < MaxPending

NextKeys ==
    \/ PrimeOk([val |-> ReadA, unreadable |-> {}], IoOk)
    \/ GetchNone
    \/ KeyQuit
    \/ KeyPause
    \/ KeyUnit
    \/ KeyData
    \/ KeyInfo
    \/ KeyOther
    \/ \E vals \in GoodReads : SampleBudget /\ SampleOk(vals, IoOk)
    \/ \E vals \in BadReads : SampleBudget /\ SampleFail(vals, IoOk)
    \/ SkipSample
    \/ Paint
    \/ DurContinue
    \/ \E k \in Keys : PendingBudget /\ KeyPress(k)

SpecKeys == InitTally /\ [][NextKeys]_vars

(***************************************************************************)
(* Properties                                                              *)
(***************************************************************************)
\* positions at which the locals of the loop exist
InLoop(p) == p \in {"drain", "sample", "paint", "durcheck", "exited", "crashed"}

\* this step is the sampling step of a tick, with a read that failed / succeeded
FailedTick == tick = "none" /\ tick' = "fail"
GoodTick == tick = "none" /\ tick' = "ok"

\* this step is getch() returning key k
Consumed(k) == pc = "drain" /\ keys # <<>> /\ Head(keys) = k /\ keys' = Tail(keys)

\* C1 as stated: a sampling tick whose counter read fails leaves both rate
\* histories with the length and contents they had before the tick.
C1_FailedReadLeavesHistory ==
    [][FailedTick => (rx_hist' = rx_hist /\ tx_hist' = tx_hist)]_vars

\* C1 amended: a sampling tick whose counter read fails appends one entry to
\* each history, the retained receive / transmit byte rate of the last
\* successful read; only when no read has succeeded yet are the histories left
\* as they were, and then the tick ends the loop with an error.
C1_FailedReadRepeatsLastRate ==
    [][FailedTick =>
        IF rates.bound
        THEN /\ rx_hist' = Append(rx_hist, rates.rx_Bps)
             /\ tx_hist' = Append(tx_hist, rates.tx_Bps)
             /\ pc' = "paint"
        ELSE /\ rx_hist' = rx_hist /\ tx_hist' = tx_hist
             /\ pc' = "crashed"]_vars

\* a failed read after a successful one has repeated the last rate
C1_Witness ==
    /\ pc = "paint" /\ tick = "fail"
    /\ Len(rx_hist) = 2 /\ rx_hist[2] = rx_hist[1] /\ tx_hist[2] = tx_hist[1]
    /\ rx_hist[2] = rates.rx_Bps

\* C2: for snapshots with fields in [0, 2^64), every delta of diff_counters
\* lies in [0, 2^64) and is cur - prev when cur >= prev and (cur + 2^64) - prev
\* when cur < prev; 18446744073709551000 followed by 500 gives 1116.
C2_DiffWrapSafe ==
    pc = "diffed" =>
        \A f \in Fields :
            /\ ~delta[f].neg
            /\ PyLess(delta[f], Two64)
            /\ IF PyLess(cur[f], prev[f])
               THEN PyAdd(prev[f], delta[f]) = PyAdd(cur[f], Two64)
               ELSE PyAdd(prev[f], delta[f]) = cur[f]
            /\ (prev[f] = Two64Minus(616) /\ cur[f] = Num(500))
                   => delta[f] = Num(1116)

\* the wrap of the scenario has been computed
C2_Witness ==
    /\ pc = "diffed"
    /\ prev[1] = Two64Minus(616) /\ cur[1] = Num(500) /\ delta[1] = Num(1116)
    /\ prev[2] = Num(1000) /\ cur[2] = Num(1500) /\ delta[2] = Num(500)

\* C3 as stated: in a sampling step the data deltas are multiplied by 4 exactly
\* when the resolved data counters are word-granularity (data_is_words), the
\* packet deltas never, whatever the link-layer string is; the rates are the
\* deltas over the elapsed time.
C3_ScaledIffWords ==
    [][GoodTick =>
        LET raw == diff_counters(prev, cur')
            want == [f \in Fields |->
                        IF f \in {1, 2} /\ paths.data_is_words
                        THEN PyMul(raw[f], 4) ELSE raw[f]]
        IN  /\ delta' = want
            /\ rates'.tx_Bps.d = want[1] /\ rates'.rx_Bps.d = want[2]
            /\ rates'.tx_pps.d = want[3] /\ rates'.rx_pps.d = want[4]
            /\ (/\ ~paths.data_is_words /\ clock - prev_t = NsPerSec
                /\ prev[2] = Num(1000) /\ cur'[2] = Num(1500))
                   => rates'.rx_Bps = [d |-> Num(500), dt |-> NsPerSec]
            /\ (/\ paths.data_is_words /\ clock - prev_t = NsPerSec
                /\ prev[1] = Num(100) /\ cur'[1] = Num(140))
                   => rates'.tx_Bps = [d |-> Num(160), dt |-> NsPerSec]]_vars

\* C4: inside the loop the raw-view flag and the address-view flag are never
\* both true.
C4_ViewsExclusive ==
    InLoop(pc) => ~(data_mode /\ info_mode)

\* the address view is shown right after the raw view was left by key i
C4_Witness ==
    /\ pc = "sample" /\ fast_switch /\ info_mode /\ ~data_mode
    /\ tick = "none" /\ rx_hist # <<>>

\* C5: the view starts as Plot and changes only on the raw-view key (to Raw,
\* or to Plot when it is Raw) and the address-view key (to Address, or to Plot
\* when it is Address); no other key and no other step changes it.
C5_ViewTransitions ==
    [][/\ (pc = "prime" /\ pc' = "drain") => View(data_mode', info_mode') = "PLOT"
       /\ (InLoop(pc) /\ InLoop(pc')) =>
            LET v == View(data_mode, info_mode)
                w == View(data_mode', info_mode')
            IN  IF \E k \in DataKeys : Consumed(k)
                THEN w = (IF v = "DATA" THEN "PLOT" ELSE "DATA")
                ELSE IF \E k \in InfoKeys : Consumed(k)
                THEN w = (IF v = "INFO" THEN "PLOT" ELSE "INFO")
                ELSE w = v]_vars

\* the raw view entered by key d while the monitor is paused
C5_Witness ==
    /\ pc = "sample" /\ fast_switch /\ paused
    /\ View(data_mode, info_mode) = "DATA"

\* C6: a history never holds more than HistCap entries; after n appends it
\* holds exactly the most recent min(n, HistCap) samples, oldest first.
C6_HistoryBounded ==
    LET n == SamplesTaken
        len == IF n < HistCap THEN n ELSE HistCap
    IN  /\ Len(rx_hist) = len /\ Len(tx_hist) = len
        /\ Len(rx_hist) <= HistCap /\ Len(tx_hist) <= HistCap
        /\ \A j \in 1..len :
              /\ ToNat(rx_hist[j].d.mag) = 4 * (n - len + j)
              /\ ToNat(tx_hist[j].d.mag) = 8 * (n - len + j)

\* two samples beyond the capacity were appended: the oldest kept is the third
C6_Witness ==
    /\ pc = "paint" /\ SamplesTaken = HistCap + 2
    /\ Len(rx_hist) = HistCap
    /\ ToNat(rx_hist[1].d.mag) = 4 * 3
    /\ ToNat(rx_hist[HistCap].d.mag) = 4 * (HistCap + 2)

C8_FailedReadKeepsLoop ==
    tick = "fail" => pc # "crashed"

\* C9: a sampling tick whose read fails leaves the retained snapshot, its
\* timestamp and the four rate values as they were.
C9_FailedReadKeepsState ==
    [][FailedTick =>
        /\ prev' = prev /\ prev_t' = prev_t
        /\ rates'.bound = rates.bound
        /\ rates'.tx_Bps = rates.tx_Bps /\ rates'.rx_Bps = rates.rx_Bps
        /\ rates'.tx_pps = rates.tx_pps /\ rates'.rx_pps = rates.rx_pps]_vars

\* a failed read a second after a successful one: the snapshot and its
\* timestamp are still those of the successful read
C9_Witness ==
    /\ pc = "paint" /\ tick = "fail" /\ rates.bound
    /\ prev = cur /\ prev_t < clock

\* the aliases of each required metric, and the metrics none of whose aliases
\* exists
Aliases ==
    [tx_data |-> TxDataNames, rx_data |-> RxDataNames,
     tx_pkts |-> TxPktsNames, rx_pkts |-> RxPktsNames]
NoAlias == {m \in Range(MetricNames) : Range(Aliases[m]) \cap files = {}}
ResolutionFails == ~dir_exists \/ NoAlias # {}

\* C10 as stated: when the directory is missing or a metric has no existing
\* alias, the error names exactly the metrics that have no existing alias.
C10_ErrorNamesMissing ==
    (ResolutionFails /\ pc \in {"error", "error_exit"})
        => Range(errmsg.missing) = NoAlias

\* C10 amended: when the counters directory does not exist the error reports
\* the counters path and names no metric; when it exists and a metric has no
\* existing alias the error names exactly those metrics; in both cases the
\* program never reads a counter, never appends to history and never enters
\* the loop.
C10_ResolutionFailureStops ==
    ResolutionFails =>
        /\ pc \in {"start", "error", "error_exit"}
        /\ prev = Unbound /\ cur = Unbound
        /\ rx_hist = Unbound /\ tx_hist = Unbound
        /\ pc # "start" =>
            IF ~dir_exists
            THEN errmsg.kind = "CountersPathNotFound" /\ errmsg.missing = <<>>
            ELSE /\ errmsg.kind = "MissingCounterFiles"
                 /\ Range(errmsg.missing) = NoAlias
                 /\ Len(errmsg.missing) = Cardinality(NoAlias)

\* the program has left after reporting two missing metrics
C10_Witness ==
    /\ pc = "error_exit" /\ dir_exists
    /\ errmsg.missing = <<"rx_data", "tx_pkts">>

\* the layout step of this iteration is done and the terminal is as it found it
LaidOut == pc = "durcheck"

\* C11 (as claimed): after the layout step the three windows have the size
\* and the origin computed from the current terminal size: the header at row
\* 0, the receive panel below it, the transmit panel below the receive panel
C11_WindowsMatchTerminal ==
    LaidOut =>
        /\ win_hdr = NewWin(HdrH, maxx, 0, 0)
        /\ win_rx = NewWin(RxH(maxy), maxx, HdrH, 0)
        /\ win_tx = NewWin(TxH(maxy), maxx, HdrH + RxH(maxy), 0)

\* C12 (as claimed): the receive panel has floor(remaining / 2) rows and the
\* transmit panel the rest, remaining being the rows below the 4-row header,
\* and the header and the panels fit within the terminal's rows
C12_PanelsFitTerminal ==
    LaidOut =>
        /\ win_rx.h = (maxy - 4) \div 2
        /\ win_tx.h = (maxy - 4) - win_rx.h
        /\ 4 + win_rx.h + win_tx.h <= maxy

\* C12 (amended): the rows split are max(6, maxy - 4); the receive panel has
\* their floor half and the transmit panel the rest, the same or one more;
\* the header and the panels fill a terminal of 10 rows or more exactly and
\* take 10 rows on a shorter one
C12_PanelsSplitFlooredRows ==
    LaidOut =>
        LET r == IF maxy - 4 < 6 THEN 6 ELSE maxy - 4
        IN  /\ win_rx.h = r \div 2
            /\ win_tx.h = r - win_rx.h
            /\ win_tx.h - win_rx.h \in {0, 1}
            /\ 4 + win_rx.h + win_tx.h = (IF maxy < 10 THEN 10 ELSE maxy)

\* a frame laid out on a terminal shorter than 10 rows after a resize
C12_Witness ==
    /\ LaidOut
    /\ maxy < 10
    /\ win_rx.h = 3 /\ win_tx.h = 3
    /\ win_tx.y = 7

\* a chart has been drawn: the panel was large enough and the history long enough
Charted == pc = "panel_done" /\ panel.drawn

\* the largest of 1 and the visible samples in the unit shown
VisibleMax ==
    LET n == IF win_rx.w - 14 < Len(rx_hist) THEN win_rx.w - 14 ELSE Len(rx_hist)
        shown == {Len(rx_hist) - n + j : j \in 1..n}
        val(j) == ToNat(rx_hist[j].d.mag) * (IF units = "bits" THEN 8 ELSE 1)
    IN  CHOOSE m \in {1} \cup {val(j) : j \in shown} :
            \A k \in {1} \cup {val(j) : j \in shown} : k <= m

\* the link rate in bits per second, of a rate file that gives one
LinkKnown == parse_rate_gbps(rate).known
LinkBps == parse_rate_gbps(rate).milli * 1000000

\* C13 (as claimed): scaleMax is the greater of 1 and the largest visible
\* sample in the unit shown, except that in bits mode with a known link rate
\* below that maximum it is the link rate; never so in bytes mode
C13_ScaleMaxOrCeiling ==
    Charted =>
        panel.maxv = IF units = "bits" /\ LinkKnown /\ LinkBps < VisibleMax
                     THEN LinkBps
                     ELSE VisibleMax

\* C13 (amended): the ceiling applies in bits mode with a known link rate
\* that is positive and below the maximum; a rate of zero is ignored
C13_ScaleMaxOrPositiveCeiling ==
    Charted =>
        /\ panel.maxv = IF units = "bits" /\ LinkKnown /\ LinkBps > 0
                           /\ LinkBps < VisibleMax
                        THEN LinkBps
                        ELSE VisibleMax
        /\ units = "bytes" => panel.maxv = VisibleMax

\* a chart in bits mode capped to a 1 Gb/s link, the oldest sample having
\* scrolled out of the visible window
C13_Witness ==
    /\ Charted
    /\ units = "bits"
    /\ panel.maxv = 1000000000
    /\ VisibleMax = 1600000000
    /\ Len(rx_hist) > win_rx.w - 14
    /\ ToNat(rx_hist[1].d.mag) = 0

\* C18: every bar of a drawn chart is between 0 and the chart height
C18_BarsWithinChart ==
    Charted => \A i \in DOMAIN panel.bars : panel.bars[i] \in 0..(win_rx.h - 3)

\* a sample above the link ceiling: its bar fills the chart, beside a lower bar
C18_Witness ==
    /\ Charted
    /\ \E i \in DOMAIN panel.bars :
           /\ panel.bars[i] = win_rx.h - 3
           /\ ToNat(rx_hist[Len(rx_hist) - Len(panel.bars) + i].d.mag) * 8 > panel.maxv
    /\ \E i \in DOMAIN panel.bars : panel.bars[i] \in 1..(win_rx.h - 4)

\* the run has ended: the loop was left by return, break or an exception
Terminated == pc \in {"exited", "crashed"}

\* the sampling step is due and the samples explored are used up
Exhausted == pc = "sample" /\ SamplingDue /\ ~SampleBudget

C15_ExitAfterAcknowledgment ==
    [][(pc = "error" /\ pc' = "error_exit")
          => (keys # <<>> /\ keys' = Tail(keys))]_vars

\* a sampling tick, of a read that succeeded or failed
SampledTick == tick = "none" /\ tick' # "none"

\* a tick that got to the CSV log with the sink open, and whose row was not
\* written or not flushed
SinkFailedAtTick ==
    /\ SampledTick
    /\ csv_on
    /\ Len(rx_hist') > Len(rx_hist)
    /\ csv_rows' = csv_rows \/ csv_flushed' # Len(csv_rows')

\* C16 (as claimed): a sink that cannot be opened, or whose header cannot be
\* written, leaves logging off; a row that cannot be written or flushed at a
\* tick turns logging off and the iteration goes on to its frame
C16_SinkFailureDisablesLogging ==
    [][/\ (pc = "prime" /\ pc' = "drain" /\ csv_on')
              => csv_flushed' = Len(csv_rows')
       /\ (InLoop(pc) /\ SinkFailedAtTick) => (~csv_on' /\ pc' = "paint")]_vars

\* C19 (as claimed): with logging on, a tick whose read succeeded appends one
\* row, flushed after it; no other step of the loop writes a row: not a tick
\* whose read failed, not a paused or key-interrupted iteration
C19_RowPerSuccessfulRead ==
    [][InLoop(pc) =>
          /\ (GoodTick /\ csv_on /\ pc' = "paint")
                => /\ csv_rows' = Append(csv_rows, DataRow(clock, rates'))
                   /\ csv_flushed' \in {csv_flushed, Len(csv_rows')}
          /\ ~GoodTick => csv_rows' = csv_rows]_vars

\* C19 (amended): with logging on, every sampling tick that gets past the
\* write appends one row, the time of the tick and the rates then held (those
\* of the last successful read when the read failed), and flushes unless the
\* flush fails; a tick ended by an exception and every other step write nothing
C19_RowPerSamplingTick ==
    [][InLoop(pc) =>
          /\ (SampledTick /\ csv_on /\ pc' = "paint")
                => /\ csv_rows' = Append(csv_rows, DataRow(clock, rates'))
                   /\ csv_flushed' \in {csv_flushed, Len(csv_rows')}
          /\ (~SampledTick \/ ~csv_on \/ pc' = "crashed")
                => /\ csv_rows' = csv_rows
                   /\ csv_flushed' = csv_flushed]_vars

\* a failed read after a successful one: two rows with the same rates, the
\* second a second later, both flushed
C19_Witness ==
    /\ pc = "paint" /\ tick = "fail"
    /\ csv_on
    /\ Len(csv_rows) >= 2
    /\ csv_rows[Len(csv_rows)].rates = csv_rows[Len(csv_rows) - 1].rates
    /\ csv_rows[Len(csv_rows)].t > csv_rows[Len(csv_rows) - 1].t
    /\ csv_flushed = Len(csv_rows)

\* C17: in the loop, the rate histories and the retained snapshot with its
\* timestamp change only in a sampling step: reading a key, skipping the
\* sampling step, painting a frame in any view and the duration check leave
\* them as they are
C17_OnlySamplingWritesState ==
    [][(InLoop(pc) /\ ~SampledTick)
          => /\ rx_hist' = rx_hist /\ tx_hist' = tx_hist
             /\ prev' = prev /\ prev_t' = prev_t]_vars

\* a frame painted in the raw view while paused, after a sample and a second
\* of pause: the sample and its snapshot are still held
C17_Witness ==
    /\ pc = "durcheck" /\ painted
    /\ paused /\ data_mode
    /\ tick = "none"
    /\ Len(rx_hist) = 1 /\ Len(tx_hist) = 1
    /\ prev = cur
    /\ clock > prev_t

\* name is the first alias of metric m that exists in the directory
FirstPresent(m, name) ==
    \E i \in DOMAIN Aliases[m] :
        /\ Aliases[m][i] = name
        /\ name \in files
        /\ \A j \in 1..(i - 1) : Aliases[m][j] \notin files

\* C20: resolution succeeds exactly when the directory exists and every
\* metric has an alias in it; each metric then has the first of its aliases
\* that exists; on a failure in an existing directory the metrics without a
\* selection are exactly those with no alias present
C20_FirstAliasSelected ==
    /\ pc \in {"prime", "error"} =>
          (pc = "prime" <=>
              (dir_exists /\ \A m \in Range(MetricNames) :
                                 Range(Aliases[m]) \cap files # {}))
    /\ pc = "prime" => \A m \in Range(MetricNames) : FirstPresent(m, paths[m])
    /\ (pc = "error" /\ dir_exists) => Range(errmsg.missing) = NoAlias

\* a resolution that takes the third alias of one metric and the first alias
\* of another whose second alias exists too
C20_Witness ==
    /\ pc = "prime"
    /\ paths.tx_pkts = "tx_packets"
    /\ paths.tx_data = "port_xmit_data" /\ "tx_bytes" \in files
    /\ paths.rx_pkts = "port_rcv_pkts" /\ "rx_packets" \in files

\* x and y are congruent modulo 2^64 (the four low limbs of x - y are zero)
Congruent64(x, y) == \A i \in 1..4 : PySub(x, y).mag[i] = 0

\* C21: once the priming read has succeeded, whatever iterations followed
\* (successful reads, failed reads, paused or key-interrupted iterations), the
\* retained snapshot is the latest successfully read snapshot (the priming
\* read if none succeeded yet), and for each counter field the sum of the
\* deltas of the successful ticks is congruent modulo 2^64 to the latest
\* successful reading minus the priming reading.
C21_SnapshotTracksReads ==
    InLoop(pc) =>
        /\ prev = last_ok
        /\ \A f \in Fields : Congruent64(total[f], PySub(last_ok[f], primed[f]))

\* a failed read has followed a successful tick across the 64-bit wrap, which
\* counted 716 sent units
C21_Witness ==
    /\ pc = "paint" /\ tick = "fail"
    /\ primed = ReadHigh /\ last_ok = ReadA
    /\ total[1] = Num(716)

\* the pause, unit and view keys
ToggleKeys == PauseKeys \cup UnitKeys \cup DataKeys \cup InfoKeys

\* this step is the drain reading a pause / unit / view key off the buffer
Applied == pc = "drain" /\ keys # <<>> /\ Head(keys) \in ToggleKeys /\ keys' = Tail(keys)

\* this step is the drain reading a key that no branch handles
Discarded == pc = "drain" /\ keys # <<>> /\ Head(keys) \notin HandledKeys /\ keys' = Tail(keys)

\* the positions of one loop iteration
Iterating == pc \in {"drain", "sample", "paint", "durcheck"}

\* the drain stops at the key it applies: the key is the oldest pending one,
\* the later ones stay queued, no other key was applied in this iteration, and
\* the next one is not applied before the loop has come round past a frame
OneKeyPerIteration ==
    /\ Applied => /\ fast_switch = FALSE /\ fast_switch' = TRUE
                  /\ pc' = "sample"
    /\ (Iterating /\ fast_switch = TRUE /\ pc' = "drain") =>
            (pc = "durcheck" /\ painted /\ fast_switch' = FALSE)
    /\ (Iterating /\ pc # "durcheck" /\ pc' = "durcheck") => (pc = "paint" /\ painted')

\* the key applied has its own effect and no other, and the paused flag, the
\* unit mode and the view change at no other step
KeyEffects ==
    /\ Applied =>
          /\ paused' = (IF Head(keys) \in PauseKeys THEN ~paused ELSE paused)
          /\ (units' # units) = (Head(keys) \in UnitKeys)
          /\ (data_mode' = ~data_mode) = (Head(keys) \in DataKeys \/ (Head(keys) \in InfoKeys /\ data_mode /\ ~info_mode))
          /\ (info_mode' = ~info_mode) = (Head(keys) \in InfoKeys \/ (Head(keys) \in DataKeys /\ info_mode /\ ~data_mode))
    /\ (Iterating /\ ~Applied) => UNCHANGED <<paused, units, data_mode, info_mode>>

\* an unrecognised key is read off the buffer and the drain goes on
UnrecognisedDropped ==
    Discarded => (pc' = "drain" /\ UNCHANGED <<paused, units, data_mode, info_mode, fast_switch>>)

\* the iteration that applied a key paints its frame
RepaintFollows == (pc = "paint" /\ fast_switch = TRUE) => (pc' = "durcheck" /\ painted')

\* C22: the drain applies at most one pause / unit / view key per loop
\* iteration, the oldest pending one, and leaves the later ones queued; each
\* key applied has its effect once and is followed by a repaint before the next
\* one is applied; an unrecognised key is consumed without changing the paused
\* flag, the unit mode or the view.
C22_KeysAppliedInTurn ==
    [][OneKeyPerIteration /\ KeyEffects /\ UnrecognisedDropped /\ RepaintFollows]_vars

====
